---- MODULE Spec2Model ----
(***************************************************************************)
(* Model of the ror repository: key-derived walk parameters, the packed    *)
(* 32x64 binary canvas, the fixed-point random walker of ror_core, and the *)
(* guest/host journal hand-off of the proving path.                        *)
(*                                                                         *)
(* Number representation.  TLC integers are 32-bit signed, so a Rust u32   *)
(* is kept as two 16-bit limbs [hi, lo] and reduced limb by limb; u8 and   *)
(* the small u64 values of the walker are plain integers.                  *)
(***************************************************************************)
EXTENDS Integers, Sequences, FiniteSets, TLC

VARIABLES
    private_key,   \* [0..31 -> 0..255], the 32-byte key of the current run
    dp_calls,      \* the last derive_parameters calls: <<[pk, core, cli]>>
    edits,         \* number of key bytes rewritten so far (input enumeration)
    canvas,        \* a BinaryImage32x64 value under its public operations
    last,          \* the last canvas operation, its arguments and outcome
    buf,           \* the last to_bytes() output and the canvas it came from
    ops,           \* number of canvas operations performed
    walks,         \* argument of the running generator call
    steps,         \* argument of the running generator call
    foreground,    \* Pixel argument of generate_rorschach_half
    background,    \* Pixel argument of generate_rorschach_half
    gen,           \* the generator that is running: "none", "binary", "half"
    pc,            \* its position: "idle", "walk_loop", "step_loop", "panic"
    rng,           \* the local ChaCha8Rng: [seed, pos], pos = words drawn so far
    stream,        \* the words the key's generator has yielded, by position
    cursor_x,      \* virtual cursor
    cursor_y,
    walk_i,        \* walks completed in this call
    step_i,        \* steps completed in this walk
    image,         \* the local canvas: BinaryImage32x64 or Image32x64
    ret_binary,    \* the last canvases generate_rorschach_binary returned
    ret_half,      \* the last canvas generate_rorschach_half returned
    plan,          \* the generator calls still to be made, in order
    journal,       \* the receipt's journal: the guest's commits, in order
    guest,         \* the guest program: "none", "running", "committed", "panicked"
    host,          \* the host CLI: "idle", "proving", "decoding", "chunks", "preview"
    done,          \* the CLI modes that have run on this key
    outcome,       \* how the proving run of the CLI ended
    cli,           \* the CLI's --color and --background
    decoded,       \* address, walks, steps as the host decoded them
    binary_data,   \* the host's Vec of decoded chunk bytes
    binary_image,  \* BinaryImage32x64::from_bytes(&binary_data)
    half_image,    \* binary_to_rgb(&binary_image, ..) of the proving run
    preview_image, \* generate_rorschach_half(..) of the run without proof
    marks,         \* set_pixel calls made by the generator call so far
    last_mark,     \* arguments <<x, y>> of its latest set_pixel call
    decided        \* the last decide_direction_fixed call made on its own

varsParams == <<dp_calls, edits>>
varsCanvas == <<canvas, last, buf, ops>>
varsArgs == <<walks, steps, foreground, background>>
varsRun == <<gen, pc, rng, stream, cursor_x, cursor_y, walk_i, step_i, image>>
varsRet == <<ret_binary, ret_half, plan>>
varsWalk == <<varsArgs, varsRun, varsRet>>
varsMarks == <<marks, last_mark>>
varsHost == <<host, done, outcome, cli, decoded, binary_data, binary_image,
              half_image, preview_image>>
varsProof == <<journal, guest, varsHost>>

vars == <<private_key, varsParams, varsCanvas, varsWalk, varsProof, varsMarks,
          decided>>

(***************************************************************************)
(* Bounds of the model                                                     *)
(***************************************************************************)
MaxEdits == 2
MaxCanvasOps == 3
MaxWalks == 2
MaxSteps == 2
MaxDraws == 6
MaxCursor == 49

(***************************************************************************)
(* u8 / u32 arithmetic                                                     *)
(***************************************************************************)
Byte == 0..255

\* a byte order slip: the four bytes read most significant first
from_be_bytes(b) ==
    [lo |-> b[4] + 256 * b[3], hi |-> b[2] + 256 * b[1]]

\* u32::from_le_bytes([b0, b1, b2, b3]) as 16-bit limbs
from_le_bytes(b) ==
    [lo |-> b[1] + 256 * b[2], hi |-> b[3] + 256 * b[4]]

\* a range slip: the modulus taken one too wide
U32RemInclusive(u, m) ==
    ((((u.hi % (m + 1)) * 256) % (m + 1)) * 256 + u.lo) % (m + 1)

\* (u as u32) % m for 0 < m < 2^23, without leaving 32-bit signed range
U32Rem(u, m) ==
    ((((u.hi % m) * 256) % m) * 256 + u.lo) % m

\* 1 << (7 - bit_offset) on a u8
BitMask(bit_offset) == 2 ^ (7 - bit_offset)

\* (byte & mask) != 0 for a one-bit mask
BitTest(byte, mask) == (byte \div mask) % 2 = 1

\* an operator slip: `^=` for `|=`, which clears a bit that is already set
BitXor(byte, mask) ==
    IF BitTest(byte, mask) THEN byte - mask ELSE byte + mask

\* byte | mask for a one-bit mask
BitOr(byte, mask) == IF BitTest(byte, mask) THEN byte ELSE byte + mask

\* byte & !mask for a one-bit mask
BitAndNot(byte, mask) == IF BitTest(byte, mask) THEN byte - mask ELSE byte

(***************************************************************************)
(* derive_parameters (ror_core and the stand-alone CLI carry one copy each)*)
(***************************************************************************)
derive_parameters(pk) ==
    LET walks_raw == from_le_bytes(<<pk[0], pk[1], pk[2], pk[3]>>)
        steps_raw == from_le_bytes(<<pk[4], pk[5], pk[6], pk[7]>>)
        walks_ == 3 + U32Rem(walks_raw, 8)
        steps_ == 100 + U32Rem(steps_raw, 201)
    IN  <<walks_, steps_>>

cli_derive_parameters(pk) ==
    LET walks_raw == from_le_bytes(<<pk[0], pk[1], pk[2], pk[3]>>)
        steps_raw == from_le_bytes(<<pk[4], pk[5], pk[6], pk[7]>>)
        walks_ == 3 + U32Rem(walks_raw, 8)
        steps_ == 100 + U32Rem(steps_raw, 201)
    IN  <<walks_, steps_>>

(***************************************************************************)
(* BinaryImage32x64                                                        *)
(***************************************************************************)
Fill(n, b) == [i \in 1..n |-> b]

\* BinaryImage32x64::new(): vec![0u8; 256]
BinaryImage32x64_new == [data |-> Fill(256, 0)]

\* a slip that forces the canvas size: the slice cut or zero-padded to 256
from_bytes_resized(bytes) ==
    [data |-> [i \in 1..256 |-> IF i <= Len(bytes) THEN bytes[i] ELSE 0]]

\* from_bytes copies the slice whatever its length
from_bytes(bytes) == [data |-> bytes]

\* Deserialize: Vec::<u8>::deserialize, wrapped without a length check
deserialize(bytes) == [data |-> bytes]

to_bytes(img) == img.data

\* self.data[byte_index] on a Vec shorter than byte_index + 1 panics
IndexPanics(img, x, y) ==
    /\ x < 32
    /\ y < 64
    /\ (y * 32 + x) \div 8 >= Len(img.data)

\* a bounds slip: x <= 32 in place of x < 32
set_pixel_off_by_one(img, x, y, value) ==
    IF x <= 32 /\ y < 64
    THEN LET bit_index == y * 32 + x
             byte_index == bit_index \div 8
             bit_offset == bit_index % 8
         IN  [data |-> [img.data EXCEPT ![byte_index + 1] =
                          IF value THEN BitOr(@, BitMask(bit_offset))
                                   ELSE BitAndNot(@, BitMask(bit_offset))]]
    ELSE img

\* set_pixel where it does not panic
set_pixel(img, x, y, value) ==
    IF x < 32 /\ y < 64
    THEN LET bit_index == y * 32 + x
             byte_index == bit_index \div 8
             bit_offset == bit_index % 8
         IN  [data |-> [img.data EXCEPT ![byte_index + 1] =
                          IF value THEN BitOr(@, BitMask(bit_offset))
                                   ELSE BitAndNot(@, BitMask(bit_offset))]]
    ELSE img

\* get_pixel where it does not panic
get_pixel(img, x, y) ==
    IF x < 32 /\ y < 64
    THEN LET bit_index == y * 32 + x
             byte_index == bit_index \div 8
             bit_offset == bit_index % 8
         IN  BitTest(img.data[byte_index + 1], BitMask(bit_offset))
    ELSE FALSE

(***************************************************************************)
(* Inputs                                                                  *)
(***************************************************************************)
ZeroKey == [i \in 0..31 |-> 0]
FFKey == [i \in 0..31 |-> 255]

\* key bytes that are rewritten: both 4-byte fields, and bytes past them
KeyIdxSamples == (0..8) \cup {31}
ByteSamples == {0, 1, 200, 255}

\* u64 coordinates: cells of the grid, its edges, and values far outside
XSamples == {0, 9, 31, 32, 2147483647}
YSamples == {0, 1, 63, 64}

\* byte slices handed to from_bytes / the deserializer
SliceSamples == {<<>>, <<255, 0, 129>>, Fill(256, 170), Fill(257, 255)}

(***************************************************************************)
(* Rest states of the parts a specification does not exercise              *)
(***************************************************************************)
NoOp ==
    [op |-> "new", x |-> 0, y |-> 0, v |-> FALSE, arg |-> <<>>,
     pre |-> BinaryImage32x64_new, res |-> FALSE, panic |-> FALSE]

NoBuf == [valid |-> FALSE, bytes |-> <<>>, of |-> BinaryImage32x64_new]

ParamsIdle == dp_calls = <<>> /\ edits = 0

CanvasIdle ==
    /\ canvas = BinaryImage32x64_new
    /\ last = NoOp
    /\ buf = NoBuf
    /\ ops = 0

WalkIdle ==
    /\ walks = 0
    /\ steps = 0
    /\ foreground = 0
    /\ background = 0
    /\ gen = "none"
    /\ pc = "idle"
    /\ rng = 0
    /\ stream = <<>>
    /\ cursor_x = 0
    /\ cursor_y = 0
    /\ walk_i = 0
    /\ step_i = 0
    /\ image = 0
    /\ ret_binary = <<>>
    /\ ret_half = <<>>
    /\ plan = <<>>
    /\ marks = 0
    /\ last_mark = <<>>

NoDecision == [called |-> FALSE]

DecideIdle == decided = NoDecision

ProofIdle ==
    /\ journal = <<>>
    /\ guest = "none"
    /\ host = "idle"
    /\ done = {}
    /\ outcome = "none"
    /\ cli = <<0, 0>>
    /\ decoded = <<>>
    /\ binary_data = <<>>
    /\ binary_image = 0
    /\ half_image = 0
    /\ preview_image = 0

(***************************************************************************)
(* SpecParams: derive_parameters applied to keys                           *)
(***************************************************************************)
InitParams ==
    /\ private_key \in {ZeroKey, FFKey}
    /\ ParamsIdle
    /\ CanvasIdle
    /\ WalkIdle
    /\ ProofIdle
    /\ DecideIdle

SetKeyByte ==
    /\ edits < MaxEdits
    /\ \E i \in KeyIdxSamples, b \in ByteSamples :
          /\ private_key[i] # b
          /\ private_key' = [private_key EXCEPT ![i] = b]
    /\ edits' = edits + 1
    /\ UNCHANGED <<dp_calls, varsCanvas, varsWalk, varsProof>>
    /\ UNCHANGED <<varsMarks, decided>>

CallDeriveParameters ==
    /\ LET rec == [pk |-> private_key,
                   core |-> derive_parameters(private_key),
                   cli |-> cli_derive_parameters(private_key)]
           all == Append(dp_calls, rec)
       IN  dp_calls' = IF Len(all) > 2 THEN Tail(all) ELSE all
    /\ UNCHANGED <<private_key, edits, varsCanvas, varsWalk, varsProof>>
    /\ UNCHANGED <<varsMarks, decided>>

NextParams == SetKeyByte \/ CallDeriveParameters

SpecParams == InitParams /\ [][NextParams]_vars

(***************************************************************************)
(* Claims on derive_parameters (checked under SpecParams)                  *)
(***************************************************************************)
AgreeOnFirst8(k1, k2) == \A i \in 0..7 : k1[i] = k2[i]

DerivedCalls == {dp_calls[i] : i \in 1..Len(dp_calls)}

\* C2: for every key, derive_parameters returns walks in [3,10] and steps in
\* [100,300], in the ror_core copy and in the CLI copy alike.
C2_ParameterRange ==
    \A c \in DerivedCalls :
        /\ c.core[1] \in 3..10
        /\ c.core[2] \in 100..300
        /\ c.cli[1] \in 3..10
        /\ c.cli[2] \in 100..300

\* a call has returned both ends of the ranges' upper side: walks 10, steps 300
C2_Witness ==
    \E c \in DerivedCalls : c.core = <<10, 300>> /\ c.cli = <<10, 300>>

\* C3: derive_parameters(k) = (3 + LE32(k[0..4]) mod 8, 100 + LE32(k[4..8]) mod 201).
\* Stated through residues: 256 = 0 (mod 8), and 256, 256^2, 256^3 are
\* 55, 10, 148 (mod 201).  Keys that agree on bytes 0..7 give the same pair;
\* the all-zero key gives (3, 100) and the all-0xFF key (10, 199).
C3_DeriveFormula ==
    /\ \A c \in DerivedCalls :
          /\ c.core[1] = 3 + (c.pk[0] % 8)
          /\ c.core[2] = 100 + ((c.pk[4] + 55 * c.pk[5] + 10 * c.pk[6]
                                  + 148 * c.pk[7]) % 201)
          /\ (c.pk = ZeroKey => c.core = <<3, 100>>)
          /\ (c.pk = FFKey => c.core = <<10, 199>>)
    /\ \A c, d \in DerivedCalls :
          AgreeOnFirst8(c.pk, d.pk) => c.core = d.core

\* the all-0xFF key and a key differing from it only past byte 7 were both derived
C3_Witness ==
    /\ Len(dp_calls) = 2
    /\ dp_calls[1].pk = FFKey
    /\ dp_calls[2].pk # FFKey
    /\ AgreeOnFirst8(dp_calls[1].pk, dp_calls[2].pk)
    /\ dp_calls[2].core = <<10, 199>>

(***************************************************************************)
(* SpecCanvas: the public operations of BinaryImage32x64                   *)
(***************************************************************************)
InitCanvas ==
    /\ private_key = ZeroKey
    /\ ParamsIdle
    /\ CanvasIdle
    /\ WalkIdle
    /\ ProofIdle
    /\ DecideIdle

CanvasLive == ops < MaxCanvasOps /\ ~last.panic

CanvasNew ==
    /\ CanvasLive
    /\ canvas' = BinaryImage32x64_new
    /\ last' = [NoOp EXCEPT !.pre = canvas]
    /\ ops' = ops + 1
    /\ UNCHANGED <<private_key, varsParams, varsWalk, varsProof, buf>>
    /\ UNCHANGED <<varsMarks, decided>>

CanvasFromBytes ==
    /\ CanvasLive
    /\ \E bytes \in SliceSamples \cup (IF buf.valid THEN {buf.bytes} ELSE {}) :
          /\ canvas' = from_bytes(bytes)
          /\ last' = [NoOp EXCEPT !.op = "from_bytes", !.arg = bytes, !.pre = canvas]
    /\ ops' = ops + 1
    /\ UNCHANGED <<private_key, varsParams, varsWalk, varsProof, buf>>
    /\ UNCHANGED <<varsMarks, decided>>

CanvasDeserialize ==
    /\ CanvasLive
    /\ \E bytes \in SliceSamples :
          /\ canvas' = deserialize(bytes)
          /\ last' = [NoOp EXCEPT !.op = "deserialize", !.arg = bytes, !.pre = canvas]
    /\ ops' = ops + 1
    /\ UNCHANGED <<private_key, varsParams, varsWalk, varsProof, buf>>
    /\ UNCHANGED <<varsMarks, decided>>

CanvasToBytes ==
    /\ CanvasLive
    /\ buf' = [valid |-> TRUE, bytes |-> to_bytes(canvas), of |-> canvas]
    /\ last' = [NoOp EXCEPT !.op = "to_bytes", !.arg = to_bytes(canvas), !.pre = canvas]
    /\ ops' = ops + 1
    /\ UNCHANGED <<private_key, varsParams, varsWalk, varsProof, canvas>>
    /\ UNCHANGED <<varsMarks, decided>>

CanvasSetPixel ==
    /\ CanvasLive
    /\ \E x \in XSamples, y \in YSamples, v \in BOOLEAN :
          /\ canvas' = IF IndexPanics(canvas, x, y) THEN canvas
                       ELSE set_pixel(canvas, x, y, v)
          /\ last' = [NoOp EXCEPT !.op = "set_pixel", !.x = x, !.y = y, !.v = v,
                                  !.pre = canvas,
                                  !.panic = IndexPanics(canvas, x, y)]
    /\ ops' = ops + 1
    /\ UNCHANGED <<private_key, varsParams, varsWalk, varsProof, buf>>
    /\ UNCHANGED <<varsMarks, decided>>

CanvasGetPixel ==
    /\ CanvasLive
    /\ \E x \in XSamples, y \in YSamples :
          last' = [NoOp EXCEPT !.op = "get_pixel", !.x = x, !.y = y,
                               !.pre = canvas,
                               !.panic = IndexPanics(canvas, x, y),
                               !.res = IF IndexPanics(canvas, x, y) THEN FALSE
                                       ELSE get_pixel(canvas, x, y)]
    /\ ops' = ops + 1
    /\ UNCHANGED <<private_key, varsParams, varsWalk, varsProof, canvas, buf>>
    /\ UNCHANGED <<varsMarks, decided>>

NextCanvas ==
    \/ CanvasNew
    \/ CanvasFromBytes
    \/ CanvasDeserialize
    \/ CanvasToBytes
    \/ CanvasSetPixel
    \/ CanvasGetPixel

SpecCanvas == InitCanvas /\ [][NextCanvas]_vars

(***************************************************************************)
(* Claims on BinaryImage32x64 (checked under SpecCanvas)                   *)
(***************************************************************************)
OutOfRange(x, y) == x >= 32 \/ y >= 64

Cells == (0..31) \X (0..63)

\* both canvases answer get_pixel alike on every cell of the grid
SamePixels(c1, c2) ==
    \A p \in Cells :
        /\ IndexPanics(c1, p[1], p[2]) = IndexPanics(c2, p[1], p[2])
        /\ ~IndexPanics(c1, p[1], p[2]) =>
              get_pixel(c1, p[1], p[2]) = get_pixel(c2, p[1], p[2])

\* C4: every BinaryImage32x64 reachable through new, from_bytes, deserialization
\* and set_pixel holds exactly 256 bytes, so to_bytes() returns 256 bytes.
C4_Always256 ==
    /\ Len(canvas.data) = 256
    /\ Len(to_bytes(canvas)) = 256

\* C5: from_bytes(to_bytes(c)) = c: same bytes, and get_pixel agrees everywhere.
C5_RoundTrip ==
    (last.op = "from_bytes" /\ buf.valid /\ last.arg = buf.bytes) =>
        /\ canvas = buf.of
        /\ to_bytes(canvas) = to_bytes(buf.of)
        /\ SamePixels(canvas, buf.of)

\* a canvas with a foreground cell, and one of another length than 256, went
\* through to_bytes and from_bytes
C5_Witness ==
    /\ last.op = "from_bytes"
    /\ buf.valid
    /\ last.arg = buf.bytes
    /\ \/ Len(canvas.data) = 256 /\ get_pixel(canvas, 9, 1)
       \/ Len(canvas.data) = 3

\* C6: for x >= 32 or y >= 64, get_pixel returns false and set_pixel leaves
\* every byte unchanged, for either value; neither call panics.
C6_OutOfRange ==
    /\ (last.op = "get_pixel" /\ OutOfRange(last.x, last.y)) =>
          ~last.panic /\ last.res = FALSE
    /\ (last.op = "set_pixel" /\ OutOfRange(last.x, last.y)) =>
          ~last.panic /\ canvas = last.pre

\* set_pixel(32, 0, true) was called on a canvas whose cell (0, 1) is clear
C6_Witness ==
    /\ last.op = "set_pixel"
    /\ last.x = 32
    /\ last.y = 0
    /\ last.v
    /\ Len(last.pre.data) = 256
    /\ ~get_pixel(last.pre, 0, 1)

\* the one bit set_pixel(x, y, v) is meant to write, and nothing else
OnlyThatBit(pre, post, x, y, v) ==
    LET bit_index == y * 32 + x
        byte_index == bit_index \div 8
        mask == 2 ^ (7 - (bit_index % 8))
    IN  /\ Len(post.data) = Len(pre.data)
        /\ \A i \in 1..Len(pre.data) :
              i # byte_index + 1 => post.data[i] = pre.data[i]
        /\ \A k \in 0..7 :
              2 ^ k # mask =>
                 BitTest(post.data[byte_index + 1], 2 ^ k)
                   = BitTest(pre.data[byte_index + 1], 2 ^ k)
        /\ BitTest(post.data[byte_index + 1], mask) = v
        /\ get_pixel(post, x, y) = v
        /\ \A p \in Cells :
              p # <<x, y>> => get_pixel(post, p[1], p[2]) = get_pixel(pre, p[1], p[2])

\* C7: for x < 32 and y < 64, set_pixel(x, y, v) changes only the bit with mask
\* 1 << (7 - ((y*32+x) mod 8)) of byte (y*32+x) div 8, setting it to v;
\* afterwards get_pixel(x, y) = v and every other cell is unchanged.
C7_SetPixelFrame ==
    (last.op = "set_pixel" /\ ~OutOfRange(last.x, last.y)) =>
        /\ ~last.panic
        /\ OnlyThatBit(last.pre, canvas, last.x, last.y, last.v)

\* the same statement on canvases of 256 bytes, where set_pixel cannot panic
SetPixelFrameOn256 ==
    (last.op = "set_pixel" /\ ~OutOfRange(last.x, last.y)
       /\ Len(last.pre.data) = 256) =>
        /\ ~last.panic
        /\ OnlyThatBit(last.pre, canvas, last.x, last.y, last.v)

(***************************************************************************)
(* Pixel and Image32x64                                                    *)
(***************************************************************************)
\* a Pixel {r, g, b} is kept as its 24-bit number r.g.b
Pixel_new(r, g, b) == r * 65536 + g * 256 + b
Pixel_r(p) == p \div 65536
Pixel_g(p) == (p \div 256) % 256
Pixel_b(p) == p % 256

\* Image32x64::new(background): vec![background; 32 * 64]
Image32x64_new(bg) == [pixels |-> Fill(32 * 64, bg)]

Image32x64_set_pixel(img, x, y, pixel) ==
    IF x < 32 /\ y < 64
    THEN [pixels |-> [img.pixels EXCEPT ![y * 32 + x + 1] = pixel]]
    ELSE img

\* Image32x64::get_pixel; the None of an out-of-range cell is not used here
Image32x64_get_pixel(img, x, y) == img.pixels[y * 32 + x + 1]

\* Image32x64::to_bytes: r, g, b of every pixel in turn, 32 * 64 * 3 bytes
Image32x64_to_bytes(img) ==
    [i \in 1..(3 * Len(img.pixels)) |->
        LET pixel == img.pixels[((i - 1) \div 3) + 1]
        IN  CASE (i - 1) % 3 = 0 -> Pixel_r(pixel)
              [] (i - 1) % 3 = 1 -> Pixel_g(pixel)
              [] OTHER -> Pixel_b(pixel)]

\* binary_to_rgb: foreground where the bit is set, background elsewhere
binary_to_rgb(binary, fg, bg) ==
    [pixels |-> [i \in 1..(32 * 64) |->
        IF get_pixel(binary, (i - 1) % 32, (i - 1) \div 32) THEN fg ELSE bg]]

(***************************************************************************)
(* The generator: ChaCha8Rng seeded by the key                             *)
(*                                                                         *)
(* The cipher is not modelled.  What the code relies on is that the word   *)
(* at a position of the stream is a function of the seed alone: `stream`   *)
(* records each word when it is first drawn (any of the sample words), and *)
(* a later generator built from the same seed reads the recorded words.    *)
(* Each call of gen_range / gen::<u32> takes one word.                     *)
(***************************************************************************)
U32(hi, lo) == [hi |-> hi, lo |-> lo]

\* generator words met by decide_direction_fixed:
\* 0, 1_000_015, 2_124_999 and 0xFFFFFFFF
DirDraws == {U32(0, 0), U32(15, 16975), U32(32, 27847), U32(65535, 65535)}

\* generator words met by gen_range(16..48) for cursor_x: they give 16, 31
\* and 47
StartDraws == {U32(0, 0), U32(15, 16975), U32(65535, 65535)}

\* generator words met by gen_range(16..48) for cursor_y: they give 16 and 47
StartYDraws == {U32(0, 0), U32(65535, 65535)}

\* a slip: an ambient generator that goes on where the last call stopped
from_seed_ambient(seed) == [seed |-> seed, pos |-> Len(stream)]

\* ChaCha8Rng::from_seed(*private_key): a fresh generator at position 0
from_seed(seed) == [seed |-> seed, pos |-> 0]

\* word w can be the i-th word (from 0) of the stream
Yields(i, w) == i < Len(stream) => w = stream[i + 1]

\* the stream once the words ws were drawn from position i on
Recorded(i, ws) ==
    IF i + Len(ws) <= Len(stream) THEN stream
    ELSE SubSeq(stream, 1, i) \o ws

\* rng.gen_range(low..high), one word reduced into the range
gen_range(w, low, high) == low + U32Rem(w, high - low)

(***************************************************************************)
(* decide_direction_fixed                                                  *)
(***************************************************************************)
VIRTUAL_WIDTH == 64
PHYSICAL_WIDTH == 32
HEIGHT == 64
SCALE == 1000000

left_margin == VIRTUAL_WIDTH \div 4
right_boundary == (3 * VIRTUAL_WIDTH) \div 4
top_margin == HEIGHT \div 4
bottom_margin == (3 * HEIGHT) \div 4

saturating_sub(a, b) == IF a > b THEN a - b ELSE 0

\* a scale slip: the distance is divided by half the width
left_prob_half_width(x) ==
    LET distance_from_left_margin == saturating_sub(x, left_margin)
    IN  IF distance_from_left_margin >= VIRTUAL_WIDTH \div 4 THEN SCALE
        ELSE (distance_from_left_margin * SCALE) \div (VIRTUAL_WIDTH \div 2)

left_prob(x) ==
    LET distance_from_left_margin == saturating_sub(x, left_margin)
    IN  IF distance_from_left_margin >= VIRTUAL_WIDTH \div 4 THEN SCALE
        ELSE (distance_from_left_margin * SCALE) \div (VIRTUAL_WIDTH \div 4)

right_prob(x) ==
    LET distance_from_right == saturating_sub(right_boundary, x)
    IN  IF distance_from_right >= VIRTUAL_WIDTH \div 4 THEN SCALE
        ELSE (distance_from_right * SCALE) \div (VIRTUAL_WIDTH \div 4)

\* a margin slip: the distance is taken from row 0, not from top_margin
up_prob_from_origin(y) ==
    LET distance_from_top == saturating_sub(y, 0)
    IN  IF distance_from_top >= HEIGHT \div 4 THEN SCALE
        ELSE (distance_from_top * SCALE) \div (HEIGHT \div 4)

up_prob(y) ==
    LET distance_from_top == saturating_sub(y, top_margin)
    IN  IF distance_from_top >= HEIGHT \div 4 THEN SCALE
        ELSE (distance_from_top * SCALE) \div (HEIGHT \div 4)

down_prob(y) ==
    LET distance_from_bottom == saturating_sub(bottom_margin, y)
    IN  IF distance_from_bottom >= HEIGHT \div 4 THEN SCALE
        ELSE (distance_from_bottom * SCALE) \div (HEIGHT \div 4)

\* a sum slip: only the weights towards the origin are added
total_prob_left_up(x, y) == left_prob(x) + up_prob(y)

total_prob(x, y) == left_prob(x) + right_prob(x) + up_prob(y) + down_prob(y)

\* a bucket slip: Up is tested before Right
decide_direction_fixed_up_first(w, x, y) ==
    LET rand_val == U32Rem(w, total_prob(x, y))
    IN  IF rand_val < left_prob(x) THEN "Left"
        ELSE IF rand_val < left_prob(x) + up_prob(y) THEN "Up"
        ELSE IF rand_val < left_prob(x) + up_prob(y) + right_prob(x) THEN "Right"
        ELSE "Down"

\* the direction for generator word w; total_prob(x, y) > 0 is the caller's
decide_direction_fixed(w, x, y) ==
    LET rand_val == U32Rem(w, total_prob(x, y))
    IN  IF rand_val < left_prob(x) THEN "Left"
        ELSE IF rand_val < left_prob(x) + right_prob(x) THEN "Right"
        ELSE IF rand_val < left_prob(x) + right_prob(x) + up_prob(y) THEN "Up"
        ELSE "Down"

(***************************************************************************)
(* generate_rorschach_binary and generate_rorschach_half, piece by piece   *)
(***************************************************************************)
\* a bound slip: Down is allowed onto row bottom_margin
binary_move_cursor_down_late(direction, x, y) ==
    CASE direction = "Left" -> <<IF x > left_margin THEN x - 1 ELSE x, y>>
      [] direction = "Right" -> <<IF x < right_boundary - 1 THEN x + 1 ELSE x, y>>
      [] direction = "Up" -> <<x, IF y > top_margin THEN y - 1 ELSE y>>
      [] direction = "Down" -> <<x, IF y < bottom_margin THEN y + 1 ELSE y>>

\* a bound slip: Right is allowed onto column right_boundary
binary_move_cursor_right_late(direction, x, y) ==
    CASE direction = "Left" -> <<IF x > left_margin THEN x - 1 ELSE x, y>>
      [] direction = "Right" -> <<IF x < right_boundary THEN x + 1 ELSE x, y>>
      [] direction = "Up" -> <<x, IF y > top_margin THEN y - 1 ELSE y>>
      [] direction = "Down" -> <<x, IF y < bottom_margin - 1 THEN y + 1 ELSE y>>

binary_move_cursor(direction, x, y) ==
    CASE direction = "Left" -> <<IF x > left_margin THEN x - 1 ELSE x, y>>
      [] direction = "Right" -> <<IF x < right_boundary - 1 THEN x + 1 ELSE x, y>>
      [] direction = "Up" -> <<x, IF y > top_margin THEN y - 1 ELSE y>>
      [] direction = "Down" -> <<x, IF y < bottom_margin - 1 THEN y + 1 ELSE y>>

half_move_cursor(direction, x, y) ==
    CASE direction = "Left" -> <<IF x > left_margin THEN x - 1 ELSE x, y>>
      [] direction = "Right" -> <<IF x < right_boundary - 1 THEN x + 1 ELSE x, y>>
      [] direction = "Up" -> <<x, IF y > top_margin THEN y - 1 ELSE y>>
      [] direction = "Down" -> <<x, IF y < bottom_margin - 1 THEN y + 1 ELSE y>>

\* a fold slip: the virtual column used as it is
binary_physical_x_identity(x) == x

\* a fold slip: `>` for `>=`, so virtual column 32 is not mirrored
binary_physical_x_late_fold(x) ==
    IF x > PHYSICAL_WIDTH THEN VIRTUAL_WIDTH - x - 1 ELSE x

\* a fold slip: the mirror column taken one too far right
binary_physical_x_unfolded(x) ==
    IF x >= PHYSICAL_WIDTH THEN VIRTUAL_WIDTH - x ELSE x

binary_physical_x(x) ==
    IF x >= PHYSICAL_WIDTH THEN VIRTUAL_WIDTH - x - 1 ELSE x

\* a fold slip: the mirror column taken one too far right
half_physical_x_unfolded(x) ==
    IF x >= PHYSICAL_WIDTH THEN VIRTUAL_WIDTH - x ELSE x

half_physical_x(x) ==
    IF x >= PHYSICAL_WIDTH THEN VIRTUAL_WIDTH - x - 1 ELSE x

\* image.set_pixel(physical_x, cursor_y, ..) of the running generator
mark(g, img, x, y) ==
    IF g = "binary" THEN set_pixel(img, binary_physical_x(x), y, TRUE)
    ELSE Image32x64_set_pixel(img, half_physical_x(x), y, foreground)

move_cursor(g, direction, x, y) ==
    IF g = "binary" THEN binary_move_cursor(direction, x, y)
    ELSE half_move_cursor(direction, x, y)

\* the column handed to set_pixel for virtual column x
physical_x(g, x) ==
    IF g = "binary" THEN binary_physical_x(x) ELSE half_physical_x(x)

\* a loop slip: `0..=steps`, one round too many
more_steps_inclusive(i, n) == i <= n

\* `for _ in 0..steps`: another round after i rounds
more_steps(i, n) == i < n

(***************************************************************************)
(* Spec: calls of the two generators on one key                            *)
(***************************************************************************)
WalkKey == [i \in 0..31 |-> IF i = 31 THEN 1 ELSE 0]

\* (walks, steps) arguments whose run draws at most MaxDraws words
WalkInputs ==
    {in \in (0..MaxWalks) \X (0..MaxSteps) : in[1] * (in[2] + 2) <= MaxDraws}

Yellow == Pixel_new(255, 217, 102)
Pink == Pixel_new(255, 0, 129)
ColorPairs == {<<Yellow, Pink>>, <<Pink, Pink>>}

\* the calls made on one key: the same generator twice, or one after the other
Plans == {<<"binary", "binary">>, <<"binary", "half">>, <<"half", "binary">>}

NoImage == BinaryImage32x64_new
NoRng == [seed |-> ZeroKey, pos |-> 0]

RunIdle ==
    /\ gen = "none"
    /\ pc = "idle"
    /\ rng = NoRng
    /\ cursor_x = 0
    /\ cursor_y = 0
    /\ walk_i = 0
    /\ step_i = 0
    /\ image = NoImage
    /\ marks = 0
    /\ last_mark = <<>>

Init ==
    /\ private_key = WalkKey
    /\ ParamsIdle
    /\ CanvasIdle
    /\ \E in \in WalkInputs : walks = in[1] /\ steps = in[2]
    /\ foreground = Yellow
    /\ background = Pink
    /\ RunIdle
    /\ stream = <<>>
    /\ ret_binary = <<>>
    /\ ret_half = <<>>
    /\ plan \in Plans
    /\ ProofIdle
    /\ DecideIdle

\* entry of generate_rorschach_binary: rng and image are built
CallBinary ==
    /\ pc = "idle"
    /\ plan # <<>>
    /\ Head(plan) = "binary"
    /\ plan' = Tail(plan)
    /\ gen' = "binary"
    /\ rng' = from_seed(private_key)
    /\ image' = BinaryImage32x64_new
    /\ walk_i' = 0
    /\ pc' = "walk_loop"
    /\ UNCHANGED <<private_key, varsParams, varsCanvas, varsProof, varsArgs, stream,
                   cursor_x, cursor_y, step_i, ret_binary, ret_half>>
    /\ marks' = 0
    /\ last_mark' = <<>>
    /\ UNCHANGED decided

\* entry of generate_rorschach_half
CallHalf ==
    /\ pc = "idle"
    /\ plan # <<>>
    /\ Head(plan) = "half"
    /\ plan' = Tail(plan)
    /\ gen' = "half"
    /\ \E cp \in ColorPairs :
          /\ foreground' = cp[1]
          /\ background' = cp[2]
          /\ image' = Image32x64_new(cp[2])
    /\ rng' = from_seed(private_key)
    /\ walk_i' = 0
    /\ pc' = "walk_loop"
    /\ UNCHANGED <<private_key, varsParams, varsCanvas, varsProof, walks, steps, stream,
                   cursor_x, cursor_y, step_i, ret_binary, ret_half>>
    /\ marks' = 0
    /\ last_mark' = <<>>
    /\ UNCHANGED decided

\* head of one walk: the start cell is drawn and marked
WalkBegin ==
    /\ pc = "walk_loop"
    /\ walk_i < walks
    /\ \E w1 \in StartDraws, w2 \in StartYDraws :
          /\ Yields(rng.pos, w1)
          /\ Yields(rng.pos + 1, w2)
          /\ stream' = Recorded(rng.pos, <<w1, w2>>)
          /\ cursor_x' = gen_range(w1, left_margin, right_boundary)
          /\ cursor_y' = gen_range(w2, top_margin, bottom_margin)
          /\ image' = mark(gen, image, cursor_x', cursor_y')
          /\ last_mark' = <<physical_x(gen, cursor_x'), cursor_y'>>
    /\ marks' = marks + 1
    /\ rng' = [rng EXCEPT !.pos = @ + 2]
    /\ step_i' = 0
    /\ pc' = "step_loop"
    /\ UNCHANGED <<private_key, varsParams, varsCanvas, varsProof, varsArgs, varsRet,
                   gen, walk_i, decided>>

\* one step of the walk: draw a direction, move if allowed, mark
WalkStep ==
    /\ pc = "step_loop"
    /\ more_steps(step_i, steps)
    /\ \E w \in DirDraws :
          /\ Yields(rng.pos, w)
          /\ stream' = Recorded(rng.pos, <<w>>)
          /\ IF total_prob(cursor_x, cursor_y) = 0
             THEN /\ pc' = "panic"
                  /\ UNCHANGED <<cursor_x, cursor_y, image, step_i, varsMarks>>
             ELSE LET direction == decide_direction_fixed(w, cursor_x, cursor_y)
                      moved == move_cursor(gen, direction, cursor_x, cursor_y)
                  IN  /\ cursor_x' = moved[1]
                      /\ cursor_y' = moved[2]
                      /\ image' = mark(gen, image, moved[1], moved[2])
                      /\ last_mark' = <<physical_x(gen, moved[1]), moved[2]>>
                      /\ marks' = marks + 1
                      /\ step_i' = step_i + 1
                      /\ pc' = pc
    /\ rng' = [rng EXCEPT !.pos = @ + 1]
    /\ UNCHANGED <<private_key, varsParams, varsCanvas, varsProof, varsArgs, varsRet,
                   gen, walk_i, decided>>

\* the steps of this walk are done
WalkEnd ==
    /\ pc = "step_loop"
    /\ ~more_steps(step_i, steps)
    /\ walk_i' = walk_i + 1
    /\ pc' = "walk_loop"
    /\ UNCHANGED <<private_key, varsParams, varsCanvas, varsProof, varsArgs, varsRet,
                   gen, rng, stream, cursor_x, cursor_y, step_i, image>>
    /\ UNCHANGED <<varsMarks, decided>>

KeepLast2(s) == IF Len(s) > 2 THEN Tail(s) ELSE s

\* the walks are done: the canvas is returned by value, the locals are dropped
Return ==
    /\ pc = "walk_loop"
    /\ walk_i = walks
    /\ ret_binary' = IF gen = "binary" THEN KeepLast2(Append(ret_binary, image))
                     ELSE ret_binary
    /\ ret_half' = IF gen = "half" THEN <<image>> ELSE ret_half
    /\ gen' = "none"
    /\ pc' = "idle"
    /\ rng' = NoRng
    /\ cursor_x' = 0
    /\ cursor_y' = 0
    /\ walk_i' = 0
    /\ step_i' = 0
    /\ image' = NoImage
    /\ UNCHANGED <<private_key, varsParams, varsCanvas, varsProof, varsArgs, stream, plan>>
    /\ UNCHANGED <<varsMarks, decided>>

Next ==
    \/ CallBinary
    \/ CallHalf
    \/ WalkBegin
    \/ WalkStep
    \/ WalkEnd
    \/ Return

Spec == Init /\ [][Next]_vars

\* the generators are sequential code: a call that can take a step takes it
SpecFair == Spec /\ WF_vars(Next)

(***************************************************************************)
(* Claims on the generators (checked under Spec)                           *)
(***************************************************************************)
\* C1: two independent runs of generate_rorschach_binary on the same key, walks
\* and steps, reading the same key-determined words, return byte-identical
\* canvases of 256 bytes: nothing is carried from one call to the next.
C1_Deterministic ==
    Len(ret_binary) = 2 =>
        /\ to_bytes(ret_binary[1]) = to_bytes(ret_binary[2])
        /\ Len(to_bytes(ret_binary[2])) = 256

\* two runs of two walks with a step each have returned, with a mark on the
\* folded right half (virtual x = 46, stored in column 17)
C1_Witness ==
    /\ Len(ret_binary) = 2
    /\ walks = 2
    /\ steps = 1
    /\ Len(stream) = 6
    /\ \E y \in 16..47 : get_pixel(ret_binary[2], 17, y)

\* C10: fed the same words, generate_rorschach_binary and generate_rorschach_half
\* mark the same cells: binary_to_rgb(binary, fg, bg) equals the RGB canvas,
\* and for fg # bg a bit is set exactly where the RGB pixel is the foreground.
C10_SameCells ==
    (Len(ret_binary) >= 1 /\ Len(ret_half) = 1) =>
        LET binary == ret_binary[Len(ret_binary)]
            half == ret_half[1]
        IN  /\ binary_to_rgb(binary, foreground, background) = half
            /\ foreground # background =>
                  \A p \in Cells :
                      get_pixel(binary, p[1], p[2])
                        = (Image32x64_get_pixel(half, p[1], p[2]) = foreground)

\* both generators have returned for two walks of one step, in distinct
\* colours, with a mark on the folded right half
C10_Witness ==
    /\ Len(ret_binary) = 1
    /\ Len(ret_half) = 1
    /\ walks = 2
    /\ steps = 1
    /\ foreground # background
    /\ \E y \in 16..47 : Image32x64_get_pixel(ret_half[1], 17, y) = foreground

(***************************************************************************)
(* SpecDir: decide_direction_fixed called on its own, on any cursor        *)
(***************************************************************************)
\* cursor_x, cursor_y: u64 arguments, in and around the region and far off
CursorSamples == (0..MaxCursor) \cup {63, 64, 2147483647}

\* a u32 below 2^31 from its value
ToU32(v) == U32(v \div 65536, v % 65536)

\* generator words around every bucket edge of the cursor (x, y), and the
\* samples of the walker
WordsAt(x, y) ==
    LET l == left_prob(x)
        r == right_prob(x)
        u == up_prob(y)
        t == total_prob(x, y)
        vs == {0, l - 1, l, l + r - 1, l + r, l + r + u - 1, l + r + u, t - 1,
               t, t + l}
    IN  {ToU32(v) : v \in {v \in vs : v >= 0}} \cup DirDraws

InitDir ==
    /\ private_key = ZeroKey
    /\ ParamsIdle
    /\ CanvasIdle
    /\ walks = 0
    /\ steps = 0
    /\ foreground = 0
    /\ background = 0
    /\ gen = "none"
    /\ pc = "idle"
    /\ rng = 0
    /\ stream = <<>>
    /\ cursor_x \in CursorSamples
    /\ cursor_y \in CursorSamples
    /\ walk_i = 0
    /\ step_i = 0
    /\ image = 0
    /\ ret_binary = <<>>
    /\ ret_half = <<>>
    /\ plan = <<>>
    /\ marks = 0
    /\ last_mark = <<>>
    /\ ProofIdle
    /\ DecideIdle

\* decide_direction_fixed(&mut rng, cursor_x, cursor_y) with word as the
\* generator's next word: its locals and its result
CallDecideDirection ==
    /\ \E word \in WordsAt(cursor_x, cursor_y) :
          decided' =
              [called |-> TRUE,
               x |-> cursor_x,
               y |-> cursor_y,
               word |-> word,
               left_prob |-> left_prob(cursor_x),
               right_prob |-> right_prob(cursor_x),
               up_prob |-> up_prob(cursor_y),
               down_prob |-> down_prob(cursor_y),
               total |-> total_prob(cursor_x, cursor_y),
               panic |-> total_prob(cursor_x, cursor_y) = 0,
               direction |->
                   IF total_prob(cursor_x, cursor_y) = 0 THEN "none"
                   ELSE decide_direction_fixed(word, cursor_x, cursor_y)]
    /\ UNCHANGED <<private_key, varsParams, varsCanvas, varsWalk, varsProof,
                   varsMarks>>

NextDir == CallDecideDirection

SpecDir == InitDir /\ [][NextDir]_vars

(***************************************************************************)
(* Claims on decide_direction_fixed (checked under SpecDir)                *)
(***************************************************************************)
WeightOf(d, direction) ==
    CASE direction = "Left" -> d.left_prob
      [] direction = "Right" -> d.right_prob
      [] direction = "Up" -> d.up_prob
      [] direction = "Down" -> d.down_prob
      [] OTHER -> 0

\* C14: decide_direction_fixed takes r = next_u32 mod total, total the sum of
\* the four weights, and returns Left if r < L, Right if L <= r < L+R, Up if
\* L+R <= r < L+R+U, Down otherwise; a direction of weight 0 is never returned.
C14_Buckets ==
    decided.called =>
        LET l == decided.left_prob
            r == decided.right_prob
            u == decided.up_prob
            rand == U32Rem(decided.word, l + r + u + decided.down_prob)
        IN  /\ ~decided.panic
            /\ decided.total = l + r + u + decided.down_prob
            /\ decided.direction = "Left" <=> rand < l
            /\ decided.direction = "Right" <=> (l <= rand /\ rand < l + r)
            /\ decided.direction = "Up" <=> (l + r <= rand /\ rand < l + r + u)
            /\ decided.direction = "Down" <=> l + r + u <= rand
            /\ WeightOf(decided, decided.direction) > 0

\* at the interior cursor (20, 40) a word lands on the first value of the
\* Down bucket
C14_Witness ==
    /\ decided.called
    /\ decided.x = 20
    /\ decided.y = 40
    /\ decided.direction = "Down"
    /\ U32Rem(decided.word, decided.total)
          = decided.left_prob + decided.right_prob + decided.up_prob

\* the saturating distance a - b
Distance(a, b) == IF a >= b THEN a - b ELSE 0

\* the weight of a distance, as specified
WeightAt(d) == IF d >= 16 THEN 1000000 ELSE (d * 1000000) \div 16

\* C16: for every cursor (x, y) each weight is an integer in [0, 1_000_000]:
\* 1_000_000 when its saturating distance d (x - 16, 48 - x, y - 16, 48 - y)
\* is at least 16 and floor(d * 1_000_000 / 16) otherwise; the sum of the four
\* is at most 4_000_000, which a u32 holds.
C16_Weights ==
    decided.called =>
        /\ decided.left_prob = WeightAt(Distance(decided.x, 16))
        /\ decided.right_prob = WeightAt(Distance(48, decided.x))
        /\ decided.up_prob = WeightAt(Distance(decided.y, 16))
        /\ decided.down_prob = WeightAt(Distance(48, decided.y))
        /\ \A direction \in {"Left", "Right", "Up", "Down"} :
              WeightOf(decided, direction) \in 0..1000000
        /\ decided.total
              = decided.left_prob + decided.right_prob + decided.up_prob
                  + decided.down_prob
        /\ decided.total <= 4000000

\* the centre cursor (32, 32), where all four weights are 1_000_000
C16_Witness ==
    /\ decided.called
    /\ decided.x = 32
    /\ decided.y = 32
    /\ decided.total = 4000000

(***************************************************************************)
(* Claims on the walker (checked under Spec)                               *)
(***************************************************************************)
\* the cursor is live from the start of a walk through its steps
CursorLive == gen # "none" /\ pc = "step_loop"

\* start cell and first drawn direction of the first walk, read off the stream
FirstStart ==
    <<gen_range(stream[1], left_margin, right_boundary),
      gen_range(stream[2], top_margin, bottom_margin)>>

FirstDirection == decide_direction_fixed(stream[3], FirstStart[1], FirstStart[2])

\* the first walk of the running call has made exactly its first step
AfterFirstStep ==
    /\ CursorLive
    /\ walk_i = 0
    /\ step_i = 1
    /\ rng.pos = 3
    /\ Len(stream) >= 3

\* C11: from the start of each walk through all its steps the virtual cursor
\* satisfies 16 <= x < 48 and 16 <= y < 48.
C11_CursorInRegion ==
    CursorLive =>
        /\ 16 <= cursor_x /\ cursor_x < 48
        /\ 16 <= cursor_y /\ cursor_y < 48

\* a walk of the binary generator started in the corner (47, 47) and drew Down
C11_Witness ==
    /\ AfterFirstStep
    /\ gen = "binary"
    /\ FirstStart = <<47, 47>>
    /\ FirstDirection = "Down"
    /\ cursor_y = 47

\* one unit from (x, y) in a direction
Destination(direction, x, y) ==
    CASE direction = "Left" -> <<x - 1, y>>
      [] direction = "Right" -> <<x + 1, y>>
      [] direction = "Up" -> <<x, y - 1>>
      [] direction = "Down" -> <<x, y + 1>>

InRegion(c) == c[1] \in 16..47 /\ c[2] \in 16..47

\* the canvas column of virtual column x, as the fold is specified
Folded(x) == IF x < 32 THEN x ELSE 64 - x - 1

\* cell (px, y) of a generator's canvas is foreground
IsForeground(g, img, px, y) ==
    IF g = "binary" THEN get_pixel(img, px, y)
    ELSE Image32x64_get_pixel(img, px, y) = foreground

\* this transition is one round of the step loop
StepTaken == CursorLive /\ pc' = "step_loop" /\ step_i' = step_i + 1

\* the direction drawn in this round: decided by the word just consumed
DrawnDirection ==
    decide_direction_fixed(stream'[rng.pos + 1], cursor_x, cursor_y)

\* C12: in each step the cursor moves by exactly one unit in the drawn
\* direction if and only if the destination is inside [16,48) x [16,48), and is
\* unchanged otherwise; either way exactly one direction word is consumed and
\* the cursor's cell is marked foreground.
C12_StepMovesOrStays ==
    [][StepTaken =>
          LET dest == Destination(DrawnDirection, cursor_x, cursor_y)
          IN  /\ <<cursor_x', cursor_y'>> =
                    IF InRegion(dest) THEN dest ELSE <<cursor_x, cursor_y>>
              /\ rng'.pos = rng.pos + 1
              /\ marks' = marks + 1
              /\ IsForeground(gen, image', Folded(cursor_x'), cursor_y')]_vars

\* a walk of the binary generator started in column 47, drew Right and stayed
C12_Witness ==
    /\ AfterFirstStep
    /\ gen = "binary"
    /\ FirstStart[1] = 47
    /\ FirstDirection = "Right"
    /\ cursor_x = 47
    /\ marks = 2
    /\ get_pixel(image, 16, cursor_y)

\* C13: every mark of the walker (start cell and each step) writes canvas
\* cell (px, y) with px = x for virtual x < 32 and px = 64 - x - 1 for x >= 32;
\* px is in [0, 32), so the canvas bounds check drops no mark.
C13_MarkFolded ==
    CursorLive =>
        /\ last_mark = <<Folded(cursor_x), cursor_y>>
        /\ last_mark[1] \in 0..31
        /\ last_mark[2] \in 0..63
        /\ IsForeground(gen, image, last_mark[1], last_mark[2])

\* a walk of the binary generator stepped Right over the fold, from virtual
\* column 31 to 32, and marked canvas column 31 again
C13_Witness ==
    /\ AfterFirstStep
    /\ gen = "binary"
    /\ FirstStart[1] = 31
    /\ FirstDirection = "Right"
    /\ cursor_x = 32
    /\ last_mark[1] = 31

\* C15: at every call of decide_direction_fixed made during a generation run
\* the sum of the four weights is non-zero, so `% total` never divides by
\* zero.
C15_TotalNonZero ==
    /\ pc # "panic"
    /\ CursorLive =>
          /\ total_prob(cursor_x, cursor_y) # 0
          /\ WeightAt(Distance(cursor_x, 16)) + WeightAt(Distance(48, cursor_x))
                + WeightAt(Distance(cursor_y, 16))
                + WeightAt(Distance(48, cursor_y)) > 0

\* a walk of the RGB generator started in the corner (16, 16), where the Left
\* and Up weights are both 0, and made a step
C15_Witness ==
    /\ AfterFirstStep
    /\ gen = "half"
    /\ FirstStart = <<16, 16>>
    /\ left_prob(16) + up_prob(16) = 0
    /\ total_prob(16, 16) = 2000000

\* words a single generator has drawn after i walks of n steps
DrawsOfWalks(i, n) == i * (n + 2)

\* marks made after i walks of n steps
MarksOfWalks(i, n) == i * (n + 1)

\* a generator call is between its entry and its return
Running == gen # "none" /\ pc \in {"walk_loop", "step_loop"}

\* the marks follow the loops walk by walk (a start mark, then a mark per
\* step), and all words come from the one generator built from the key at
\* entry
MarksInSequence ==
    /\ Running =>
          /\ walk_i <= walks
          /\ step_i <= steps
          /\ rng.seed = private_key
          /\ IF pc = "step_loop"
             THEN /\ walk_i < walks
                  /\ marks = MarksOfWalks(walk_i, steps) + 1 + step_i
                  /\ rng.pos = DrawsOfWalks(walk_i, steps) + 2 + step_i
             ELSE /\ marks = MarksOfWalks(walk_i, steps)
                  /\ rng.pos = DrawsOfWalks(walk_i, steps)
    /\ (gen = "none" /\ ret_binary \o ret_half # <<>>) =>
          marks = walks * (steps + 1)
    /\ \A k \in {ZeroKey, FFKey, private_key} :
          derive_parameters(k)[1] * (derive_parameters(k)[2] + 1) <= 10 * 301

\* every call returns, and the planned calls all get made
AllReturned == gen = "none" /\ pc = "idle" /\ plan = <<>>

\* C17: a run with (walks, steps) terminates after exactly walks * (steps + 1)
\* marks, made walk by walk (one start mark, then `steps` step marks) from a
\* single generator created once from the key; key-derived parameters give at
\* most 10 * 301 marks.
C17_MarksAndTermination == []MarksInSequence /\ <>[]AllReturned

\* two walks of one step each have returned from the binary generator after
\* four marks and six words
C17_Witness ==
    /\ gen = "none"
    /\ Len(ret_binary) = 1
    /\ walks = 2
    /\ steps = 1
    /\ marks = 4
    /\ Len(stream) = 6

\* the cells of a generator's canvas that are foreground
ForegroundCells(g, img) ==
    {c \in Cells : IsForeground(g, img, c[1], c[2])}

\* the cells packed into byte i (from 1) of a packed canvas
CellsOfByte(i) ==
    {<<((i - 1) * 8 + b) % 32, ((i - 1) * 8 + b) \div 32>> : b \in 0..7}

\* the foreground cells of a packed canvas, looked for in its non-zero bytes
\* (get_pixel is false on every cell of a zero byte)
BinaryForeground(img) ==
    LET live == {i \in 1..Len(img.data) : img.data[i] # 0}
    IN  {c \in UNION {CellsOfByte(i) : i \in live} : get_pixel(img, c[1], c[2])}

\* the binary generator has just been entered
BinaryEntered == gen = "binary" /\ pc = "walk_loop" /\ walk_i = 0

\* C18: during a run the canvas starts all-zero and grows monotonically: a
\* cell that is foreground stays foreground in every later state of the run.
C18_CanvasGrows ==
    /\ [](BinaryEntered =>
            /\ image.data = [i \in 1..256 |-> 0]
            /\ ForegroundCells("binary", image) = {})
    /\ [][(Running /\ gen = "binary" /\ gen' = gen) =>
            \A c \in BinaryForeground(image) : get_pixel(image', c[1], c[2])]_vars

\* the binary generator started at (31, 16), stepped Left, and holds both the
\* start cell and the cell of the step
C18_Witness ==
    /\ AfterFirstStep
    /\ gen = "binary"
    /\ FirstStart = <<31, 16>>
    /\ FirstDirection = "Left"
    /\ ForegroundCells("binary", image) = {<<31, 16>>, <<30, 16>>}

\* C19: every foreground cell of a canvas returned by
\* generate_rorschach_binary has column in [16, 32) and row in [16, 48)
\* (columns 0..15, rows 0..15 and rows 48..63 are background), and the canvas
\* has a foreground cell whenever walks >= 1.
C19_ForegroundRegion ==
    \A k \in 1..Len(ret_binary) :
        LET cells == BinaryForeground(ret_binary[k])
        IN  /\ cells \subseteq (16..31) \X (16..47)
            /\ walks >= 1 => cells # {}

\* two walks without steps, started at (16, 16) and (47, 47), returned a
\* canvas with the two corner cells of column 16
C19_Witness ==
    /\ Len(ret_binary) = 1
    /\ walks = 2
    /\ steps = 0
    /\ ForegroundCells("binary", ret_binary[1]) = {<<16, 16>>, <<16, 47>>}

\* the weights at the four margins of the region
WeightsAtMargins ==
    /\ left_prob(16) = 0
    /\ up_prob(16) = 0
    /\ right_prob(47) = 62500
    /\ down_prob(47) = 62500

\* at the left (top) margin no generator word makes the call return Left (Up)
NotDrawnAtMargin ==
    CursorLive =>
        \A w \in WordsAt(cursor_x, cursor_y) :
            LET direction == decide_direction_fixed(w, cursor_x, cursor_y)
            IN  /\ cursor_x = 16 => direction # "Left"
                /\ cursor_y = 16 => direction # "Up"

\* C20: a drawn move is dropped only for Right at x = 47 or Down at y = 47:
\* at x = 16 the Left weight is 0 and Left is never drawn, at y = 16 the Up
\* weight is 0 and Up is never drawn, and at x = 47 and y = 47 the Right and
\* Down weights are 62_500.
C20_DropsOnlyRightDown ==
    /\ [](WeightsAtMargins /\ NotDrawnAtMargin)
    /\ [][StepTaken =>
            /\ cursor_x = 16 => DrawnDirection # "Left"
            /\ cursor_y = 16 => DrawnDirection # "Up"
            /\ <<cursor_x', cursor_y'>> = <<cursor_x, cursor_y>> =>
                  \/ DrawnDirection = "Right" /\ cursor_x = 47
                  \/ DrawnDirection = "Down" /\ cursor_y = 47]_vars

\* a walk of the RGB generator started in the corner (47, 47), drew Down and
\* stayed in row 47
C20_Witness ==
    /\ AfterFirstStep
    /\ gen = "half"
    /\ FirstStart = <<47, 47>>
    /\ FirstDirection = "Down"
    /\ <<cursor_x, cursor_y>> = <<47, 47>>

Abs(n) == IF n < 0 THEN -n ELSE n

\* two cells differ by exactly 1 in exactly one coordinate
Adjacent4(a, b) == Abs(a[1] - b[1]) + Abs(a[2] - b[2]) = 1

\* the cells of S reached from the cells of R in at most n 4-adjacent moves
RECURSIVE ReachedWithin(_, _, _)
ReachedWithin(R, S, n) ==
    IF n = 0 THEN R
    ELSE ReachedWithin(R \cup {c \in S : \E d \in R : Adjacent4(c, d)}, S, n - 1)

\* S is connected under 4-adjacency
Connected4(S) ==
    S = {} \/ \E c \in S : ReachedWithin({c}, S, Cardinality(S)) = S

\* the canvas of the binary generator during its first walk holds the cells
\* of that walk alone, and they form a connected set
FirstWalkConnected ==
    (CursorLive /\ gen = "binary" /\ walk_i = 0) =>
        /\ BinaryForeground(image) # {}
        /\ Connected4(BinaryForeground(image))

\* C21: within one walk the canvas cells written by two consecutive marks are
\* the same cell or 4-adjacent, also across the fold (virtual columns 31 and
\* 32 both map to canvas column 31); so the cells marked by one walk form a
\* connected set of the 32x64 canvas.
C21_ConsecutiveMarksAdjacent ==
    /\ [](Folded(31) = 31 /\ Folded(32) = 31 /\ FirstWalkConnected)
    /\ [][StepTaken =>
            /\ last_mark' = last_mark \/ Adjacent4(last_mark, last_mark')
            /\ IsForeground(gen, image', last_mark[1], last_mark[2])
            /\ IsForeground(gen, image', last_mark'[1], last_mark'[2])
            /\ (cursor_x = 31 /\ cursor_x' = 32) => last_mark' = last_mark]_vars

\* a walk of the RGB generator stepped Right over the fold, from virtual column
\* 31 to 32, and its two marks fell on the same canvas cell of column 31
C21_Witness ==
    /\ AfterFirstStep
    /\ gen = "half"
    /\ foreground # background
    /\ FirstStart[1] = 31
    /\ FirstDirection = "Right"
    /\ cursor_x = 32
    /\ last_mark = <<31, FirstStart[2]>>
    /\ ForegroundCells("half", image) = {last_mark}

(***************************************************************************)
(* SpecProof: the proving path (guest, journal, host) and the preview path *)
(* of the host CLI on one key                                              *)
(***************************************************************************)
\* keys with derive_parameters = (3, 100), (4, 100) and the all-zero key
ProofKeys ==
    {WalkKey, [WalkKey EXCEPT ![0] = 1], ZeroKey}

\* SigningKey::from_bytes accepts scalars in [1, n - 1]; n begins with fifteen
\* 0xFF bytes and 0xFE, which decides every key used here
ValidSigningKey(pk) ==
    /\ pk # ZeroKey
    /\ \E i \in 0..15 : pk[i] # 255

\* the 20-byte address is computed outside this repository (k256, Keccak256)
address_of(pk) == [bytes |-> 20, of |-> pk]

DirDrawSeq == <<U32(0, 0), U32(15, 16975), U32(32, 27847), U32(65535, 65535)>>
StartDrawSeq == <<U32(0, 0), U32(15, 16975), U32(65535, 65535)>>
StartYDrawSeq == <<U32(0, 0), U32(65535, 65535)>>

\* the word stream of key pk for a run of (w, s): a fixed function of the key
\* standing for the ChaCha8 key stream
ProofStream(pk, w, s) ==
    [i \in 1..(w * (s + 2)) |->
        LET k == (i - 1) % (s + 2)
            mix == pk[0] + pk[31] + 7 * i + 5 * (i \div 3) + 3 * (i \div 11)
        IN  IF k = 0 THEN StartDrawSeq[(mix % 3) + 1]
            ELSE IF k = 1 THEN StartYDrawSeq[(mix % 2) + 1]
            ELSE DirDrawSeq[(mix % 4) + 1]]

CliColors == {<<Yellow, Pink>>, <<Pink, Yellow>>}

InitProof ==
    /\ private_key \in ProofKeys
    /\ ParamsIdle
    /\ CanvasIdle
    /\ walks = 0
    /\ steps = 0
    /\ foreground = Yellow
    /\ background = Pink
    /\ RunIdle
    /\ stream = ProofStream(private_key, derive_parameters(private_key)[1],
                            derive_parameters(private_key)[2])
    /\ ret_binary = <<>>
    /\ ret_half = <<>>
    /\ plan = <<>>
    /\ journal = <<>>
    /\ guest = "none"
    /\ host = "idle"
    /\ done = {}
    /\ outcome = "none"
    /\ cli \in CliColors
    /\ decoded = <<>>
    /\ binary_data = <<>>
    /\ binary_image = NoImage
    /\ half_image = NoImage
    /\ preview_image = NoImage
    /\ DecideIdle

\* host main with --prove: generate_proof hands the key to the guest
HostProve ==
    /\ host = "idle"
    /\ "prove" \notin done
    /\ host' = "proving"
    /\ guest' = "start"
    /\ UNCHANGED <<private_key, varsParams, varsCanvas, varsWalk, journal, done,
                   outcome, cli, decoded, binary_data, binary_image, half_image,
                   preview_image>>
    /\ UNCHANGED <<varsMarks, decided>>

\* guest main up to the call of generate_rorschach_half
GuestMain ==
    /\ guest = "start"
    /\ IF ValidSigningKey(private_key)
       THEN /\ guest' = "running"
            /\ walks' = derive_parameters(private_key)[1]
            /\ steps' = derive_parameters(private_key)[2]
            /\ foreground' = Pixel_new(255, 217, 102)
            /\ background' = Pixel_new(255, 0, 129)
            /\ gen' = "half"
            /\ rng' = from_seed(private_key)
            /\ image' = Image32x64_new(background')
            /\ walk_i' = 0
            /\ pc' = "walk_loop"
            /\ marks' = 0
            /\ last_mark' = <<>>
            /\ UNCHANGED <<host, done, outcome>>
       ELSE /\ guest' = "panicked"
            /\ host' = "idle"
            /\ done' = done \cup {"prove"}
            /\ outcome' = "guest_panic"
            /\ UNCHANGED <<varsArgs, gen, rng, image, walk_i, pc, varsMarks>>
    /\ UNCHANGED <<private_key, varsParams, varsCanvas, varsRet, stream, cursor_x,
                   cursor_y, step_i, journal, cli, decoded, binary_data,
                   binary_image, half_image, preview_image, decided>>

\* guest main after the generator returned: the four commits
GuestCommit ==
    /\ guest = "running"
    /\ pc = "walk_loop"
    /\ walk_i = walks
    /\ journal' = <<[ty |-> "[u8; 20]", val |-> address_of(private_key)],
                    [ty |-> "u64", val |-> walks],
                    [ty |-> "u64", val |-> steps],
                    [ty |-> "Vec<u8>", val |-> Image32x64_to_bytes(image)]>>
    /\ guest' = "committed"
    /\ host' = "decoding"
    /\ gen' = "none"
    /\ pc' = "idle"
    /\ rng' = NoRng
    /\ cursor_x' = 0
    /\ cursor_y' = 0
    /\ walk_i' = 0
    /\ step_i' = 0
    /\ image' = NoImage
    /\ UNCHANGED <<private_key, varsParams, varsCanvas, varsArgs, varsRet, stream,
                   done, outcome, cli, decoded, binary_data, binary_image,
                   half_image, preview_image>>
    /\ UNCHANGED <<varsMarks, decided>>

\* host: address, walks and steps are decoded from the journal
HostDecodeScalars ==
    /\ host = "decoding"
    /\ decoded' = <<journal[1].val, journal[2].val, journal[3].val>>
    /\ binary_data' = <<>>
    /\ host' = "chunks"
    /\ UNCHANGED <<private_key, varsParams, varsCanvas, varsWalk, journal, guest,
                   done, outcome, cli, binary_image, half_image, preview_image>>
    /\ UNCHANGED <<varsMarks, decided>>

\* the journal entry the chunks are read from
CanvasEntry == journal[4]

\* host: one `[u8; 32]` chunk is decoded and appended.  The entry was written
\* as a Vec<u8>; where the decoder accepts it, the chunk is its next 32 bytes.
HostDecodeChunk ==
    /\ host = "chunks"
    /\ Len(binary_data) < 8 * 32
    /\ Len(CanvasEntry.val) >= Len(binary_data) + 32
    /\ binary_data' = binary_data \o
                        SubSeq(CanvasEntry.val, Len(binary_data) + 1,
                               Len(binary_data) + 32)
    /\ UNCHANGED <<private_key, varsParams, varsCanvas, varsWalk, journal, guest,
                   host, done, outcome, cli, decoded, binary_image, half_image,
                   preview_image>>
    /\ UNCHANGED <<varsMarks, decided>>

\* host: decoding a chunk fails (the `?` returns the error from main).  An
\* entry that is not laid out as eight `[u8; 32]` values can be refused by the
\* decoder, as can one that is too short.
HostDecodeFail ==
    /\ host = "chunks"
    /\ Len(binary_data) < 8 * 32
    /\ \/ CanvasEntry.ty # "[u8; 32] x 8"
       \/ Len(CanvasEntry.val) < Len(binary_data) + 32
    /\ host' = "idle"
    /\ done' = done \cup {"prove"}
    /\ outcome' = "decode_error"
    /\ UNCHANGED <<private_key, varsParams, varsCanvas, varsWalk, journal, guest,
                   cli, decoded, binary_data, binary_image, half_image,
                   preview_image>>
    /\ UNCHANGED <<varsMarks, decided>>

\* host: the canvas is rebuilt from the eight chunks and coloured
HostRender ==
    /\ host = "chunks"
    /\ Len(binary_data) = 8 * 32
    /\ binary_image' = from_bytes(binary_data)
    /\ half_image' = binary_to_rgb(binary_image', cli[1], cli[2])
    /\ host' = "idle"
    /\ done' = done \cup {"prove"}
    /\ outcome' = "rendered"
    /\ UNCHANGED <<private_key, varsParams, varsCanvas, varsWalk, journal, guest,
                   cli, decoded, binary_data, preview_image>>
    /\ UNCHANGED <<varsMarks, decided>>

\* host main without --prove, up to the call of generate_rorschach_half
HostPreview ==
    /\ host = "idle"
    /\ "preview" \notin done
    /\ host' = "preview"
    /\ walks' = derive_parameters(private_key)[1]
    /\ steps' = derive_parameters(private_key)[2]
    /\ foreground' = cli[1]
    /\ background' = cli[2]
    /\ gen' = "half"
    /\ rng' = from_seed(private_key)
    /\ image' = Image32x64_new(background')
    /\ walk_i' = 0
    /\ pc' = "walk_loop"
    /\ UNCHANGED <<private_key, varsParams, varsCanvas, varsRet, stream, cursor_x,
                   cursor_y, step_i, journal, guest, done, outcome, cli, decoded,
                   binary_data, binary_image, half_image, preview_image>>
    /\ marks' = 0
    /\ last_mark' = <<>>
    /\ UNCHANGED decided

\* host: the generator returned the half-canvas of the preview
HostPreviewReturn ==
    /\ host = "preview"
    /\ pc = "walk_loop"
    /\ walk_i = walks
    /\ preview_image' = image
    /\ host' = "idle"
    /\ done' = done \cup {"preview"}
    /\ gen' = "none"
    /\ pc' = "idle"
    /\ rng' = NoRng
    /\ cursor_x' = 0
    /\ cursor_y' = 0
    /\ walk_i' = 0
    /\ step_i' = 0
    /\ image' = NoImage
    /\ UNCHANGED <<private_key, varsParams, varsCanvas, varsArgs, varsRet, stream,
                   journal, guest, outcome, cli, decoded, binary_data,
                   binary_image, half_image>>
    /\ UNCHANGED <<varsMarks, decided>>

NextProof ==
    \/ HostProve
    \/ GuestMain
    \/ WalkBegin
    \/ WalkStep
    \/ WalkEnd
    \/ GuestCommit
    \/ HostDecodeScalars
    \/ HostDecodeChunk
    \/ HostDecodeFail
    \/ HostRender
    \/ HostPreview
    \/ HostPreviewReturn

SpecProof == InitProof /\ [][NextProof]_vars

(***************************************************************************)
(* Claims on the proving path (checked under SpecProof)                    *)
(***************************************************************************)
\* C8: the guest commits address (20 bytes), walks, steps, canvas in that
\* order, and the committed canvas is the 256-byte packed canvas, one bit per
\* cell, which the host reads back as 8 chunks of 32 bytes.
C8_JournalLayout ==
    journal # <<>> =>
        /\ Len(journal) = 4
        /\ journal[1] = [ty |-> "[u8; 20]", val |-> address_of(private_key)]
        /\ journal[2] = [ty |-> "u64", val |-> derive_parameters(private_key)[1]]
        /\ journal[3] = [ty |-> "u64", val |-> derive_parameters(private_key)[2]]
        /\ Len(journal[4].val) = 8 * 32
        /\ Len(journal[4].val) * 8 = 32 * 64

\* C9: for one key, the canvas the host rebuilds from the journal (8 chunks of
\* 32 bytes, from_bytes) has exactly the foreground cells of the canvas the
\* preview path generates.
C9_ProofMatchesPreview ==
    (done = {"prove", "preview"} /\ ValidSigningKey(private_key)) =>
        /\ outcome = "rendered"
        /\ Len(binary_image.data) = 256
        /\ \A p \in Cells :
              get_pixel(binary_image, p[1], p[2])
                = (Image32x64_get_pixel(preview_image, p[1], p[2]) = cli[1])

====
